---- MODULE Spec2Model ----
(***************************************************************************)
(* Model of jasmin_metadata: the Metadatum table and                       *)
(* HasMetadata.copy_metadata_to (models/base.py), and the admin            *)
(* integration FieldAdmin / HasMetadataModelAdmin (admin.py).              *)
(*                                                                         *)
(* The Metadatum table is a multiset of rows (content_type, object_id,     *)
(* key, value): the surrogate id column is never read by the code, so a    *)
(* row is identified by its other columns and the table counts its copies. *)
(***************************************************************************)
EXTENDS Naturals, Sequences, FiniteSets

\* ------------------------------------------------------------------ bounds
\* register_field_type calls after the import of admin.py.
MaxRegistrations == 3
\* Number of concurrent requests in the concurrent specification.
NumProcs == 2

\* ------------------------------------------------------------- the universe
\* Instances of two models that inherit HasMetadata, "A" and "B", as
\* <<content type, pk>>; A1 and B1 share a primary key, so only the content
\* type tells their rows apart.
Entities == {<<"A", 1>>, <<"A", 2>>, <<"B", 1>>}
Keys == {"k1", "k2"}
Values == {"u", "v"}

\* Metadatum: one row of the table (the id column left out).
Metadatum == {[content_type |-> e[1], object_id |-> e[2], key |-> k, value |-> v] :
                  e \in Entities, k \in Keys, v \in Values}

VARIABLES
    objects,        \* saved HasMetadata instances, as <<content type, pk>>
    rows,           \* the Metadatum table: row -> number of copies (> 0)
    child_models,   \* FieldAdmin.child_models
    last,           \* the last operation: its arguments, pre-state and result
    pc,             \* each copying request's position in copy_metadata_to
    job             \* each copying request's local variables

vars == <<objects, rows, child_models, last, pc, job>>

\* ---------------------------------------------------------------- the table
\* Metadatum.objects.create's row for entity e.
Row(e, k, v) == [content_type |-> e[1], object_id |-> e[2], key |-> k, value |-> v]

\* Metadatum.objects.filter(content_type = ct, object_id = pk): the rows of e.
FilterRows(t, e) == {r \in DOMAIN t : r.content_type = e[1] /\ r.object_id = e[2]}

\* { d.key : d.value for d in metadata.all() }, as the set of (key, value)
\* pairs the rows of e hold.
get_metadata(t, e) == {<<r.key, r.value>> : r \in FilterRows(t, e)}

\* Number of rows of the table holding the triple (content_type, object_id, key).
RECURSIVE SumCopies(_, _)
SumCopies(t, S) ==
    IF S = {} THEN 0
    ELSE LET r == CHOOSE x \in S : TRUE IN t[r] + SumCopies(t, S \ {r})

TripleCount(t, e, k) == SumCopies(t, {r \in FilterRows(t, e) : r.key = k})

\* A table without the unique constraint.
UniqueViolationNoCheck(t, e, k) == FALSE

\* unique_together = ('content_type', 'object_id', 'key'): an INSERT of a row
\* whose triple is already in the table raises IntegrityError.

UniqueViolation(t, e, k) == TripleCount(t, e, k) > 0

\* QuerySet.delete() on the rows of e.
DeleteRows(t, e) == [r \in DOMAIN t \ FilterRows(t, e) |-> t[r]]

\* The INSERT itself, once the constraint has let it through.
InsertRow(t, r) ==
    IF r \in DOMAIN t THEN [t EXCEPT ![r] = @ + 1]
    ELSE [x \in DOMAIN t \cup {r} |-> IF x = r THEN 1 ELSE t[x]]

\* Metadatum.objects.create(...): the new table, or the IntegrityError.
Create(t, e, k, v) ==
    IF UniqueViolation(t, e, k)
    THEN [rows |-> t, error |-> "IntegrityError"]
    ELSE [rows |-> InsertRow(t, Row(e, k, v)), error |-> "none"]

\* ------------------------------------------------- MetadataForm (forms.py)
\* The raw metadata of a POST: per field a value, "bad" for an input the
\* field's validator rejects, "absent" for a field left out.
RawValues == Values \cup {"bad", "absent"}

\* request.POST as far as the admin reads it: the '_has_metadata' marker and
\* the fields under the 'metadata' prefix (none without the marker).
\* The submissions are drawn from: the required field k1 left out or
\* given either value, the optional field k2 given a rejected or a good value.
PostValues(k) == IF k = "k1" THEN {"absent", "u", "v"} ELSE {"bad", "v"}

Posts ==
    {[has_metadata |-> TRUE, data |-> f] :
        f \in {g \in [Keys -> RawValues] : \A k \in Keys : g[k] \in PostValues(k)}}
        \cup {[has_metadata |-> FALSE, data |-> [k \in Keys |-> "absent"]]}

\* The fields of the metadata form that are required.
RequiredKeys == {"k1"}

\* MetadataForm.is_valid(): no field fails its validator and no required
\* field is missing.
is_valid(post) ==
    /\ \A k \in Keys : post.data[k] # "bad"
    /\ \A k \in RequiredKeys : post.data[k] # "absent"

\* MetadataForm.cleaned_data of a valid form: the fields that were given.
cleaned_data(post) == {<<k, post.data[k]>> : k \in {x \in Keys : post.data[x] \in Values}}

\* MetadataStore.set: insert-or-replace the one row of (entity, key).
set_metadatum(t, e, k, v) ==
    LET kept == [r \in DOMAIN t \ {x \in FilterRows(t, e) : x.key = k} |-> t[r]]
    IN InsertRow(kept, Row(e, k, v))

\* MetadataForm.save(obj): one set per validated field.
RECURSIVE form_save(_, _, _)
form_save(t, e, data) ==
    IF data = {} THEN t
    ELSE LET kv == CHOOSE x \in data : TRUE
         IN form_save(set_metadatum(t, e, kv[1], kv[2]), e, data \ {kv})

\* ------------------------------------------- HasMetadataModelAdmin (admin.py)
\* get_metadata_form_class: the admin of model "A" sets metadata_form_class,
\* the admin of model "B" leaves the default None.
get_metadata_form_class(e) == IF e[1] = "A" THEN "MetadataForm" ELSE "None"

\* get_metadata_form_initial_data: the metadata attached to the object. An
\* object that was never saved has pk None, and the filter matches no row.
get_metadata_form_initial_data(t, e, has_pk) == IF has_pk THEN get_metadata(t, e) ELSE {}

\* ModelAdmin.save_model (the super() call): obj.save().
base_save_model(objs, t, e) ==
    [objects |-> objs \cup {e}, rows |-> t, obj_saved |-> TRUE, md_saved |-> FALSE]

\* save_model that saves the object before looking at the metadata.
save_model_object_first(objs, t, e, post) ==
    IF get_metadata_form_class(e) = "None" THEN base_save_model(objs, t, e)
    ELSE IF post.has_metadata /\ is_valid(post)
         THEN [objects |-> objs \cup {e}, rows |-> form_save(t, e, cleaned_data(post)),
               obj_saved |-> TRUE, md_saved |-> TRUE]
         ELSE base_save_model(objs, t, e)

\* HasMetadataModelAdmin.save_model
save_model(objs, t, e, post) ==
    IF get_metadata_form_class(e) = "None" THEN base_save_model(objs, t, e)
    ELSE IF post.has_metadata /\ is_valid(post)
         THEN [objects |-> objs \cup {e}, rows |-> form_save(t, e, cleaned_data(post)),
               obj_saved |-> TRUE, md_saved |-> TRUE]
         ELSE [objects |-> objs, rows |-> t, obj_saved |-> FALSE, md_saved |-> FALSE]

\* ModelAdmin.response_add / response_change (the super() calls): the normal
\* response after a save.
base_response ==
    [kind |-> "success", metadata_form |-> FALSE, initial |-> {}, error |-> "none"]

\* The context of a change form before HasMetadataModelAdmin adds to it.
PlainContext == [metadata_form |-> FALSE, initial |-> {}]

\* ModelAdmin.render_change_form (the super() call): the page rendered from
\* the context.
base_render_change_form(context) ==
    [kind |-> "form", metadata_form |-> context.metadata_form,
     initial |-> context.initial, error |-> "none"]

\* HasMetadataModelAdmin.render_change_form. On a change page the assignment
\* context['metadata_form'] = AdminForm(metadata_form, ...) is outside the
\* "if metadata_form_class:" block, so without a form class it reads the
\* local metadata_form that was never bound.
render_change_form(t, e, has_pk, method, change, context) ==
    IF change
    THEN IF get_metadata_form_class(e) # "None"
         THEN base_render_change_form(
                  [metadata_form |-> TRUE,
                   initial |-> IF method = "POST" THEN {}
                               ELSE get_metadata_form_initial_data(t, e, has_pk)])
         ELSE [kind |-> "error", metadata_form |-> FALSE, initial |-> {},
               error |-> "UnboundLocalError"]
    ELSE base_render_change_form(context)

\* response_add that trusts the marker without validating the form.
response_add_marker_only(t, e, has_pk, post) ==
    IF get_metadata_form_class(e) = "None" THEN base_response
    ELSE IF post.has_metadata THEN base_response
    ELSE render_change_form(t, e, has_pk, "POST", FALSE,
             [metadata_form |-> TRUE, initial |-> get_metadata_form_initial_data(t, e, has_pk)])

\* HasMetadataModelAdmin.response_add: the metadata form shown again is bound
\* to the POST when it carried metadata, and starts from the attached
\* metadata when it did not.
response_add(t, e, has_pk, post) ==
    IF get_metadata_form_class(e) = "None" THEN base_response
    ELSE IF post.has_metadata /\ is_valid(post) THEN base_response
    ELSE render_change_form(t, e, has_pk, "POST", FALSE,
             [metadata_form |-> TRUE,
              initial |-> IF post.has_metadata THEN {}
                          ELSE get_metadata_form_initial_data(t, e, has_pk)])

\* HasMetadataModelAdmin.response_change
response_change(t, e, has_pk, post) ==
    IF get_metadata_form_class(e) = "None" THEN base_response
    ELSE IF post.has_metadata /\ is_valid(post) THEN base_response
    ELSE render_change_form(t, e, has_pk, "POST", TRUE, PlainContext)

\* ------------------------------------------------------ FieldAdmin (admin.py)
\* FieldAdmin.register_field_type: append (model, model_admin), the admin
\* being a generated subclass of FieldChildAdmin when none is given.
register_field_type(cm, model, model_admin) ==
    Append(cm, <<model, IF model_admin = "None" THEN "generated" ELSE model_admin>>)

\* The registrations admin.py makes as it is imported, in order.
ModuleRegistrations ==
    << <<"BooleanField", "None">>, <<"SingleLineTextField", "None">>,
       <<"MultiLineTextField", "None">>, <<"EmailField", "None">>,
       <<"IPv4Field", "None">>, <<"RegexField", "None">>, <<"SlugField", "None">>,
       <<"URLField", "None">>, <<"IntegerField", "None">>, <<"FloatField", "None">>,
       <<"ChoiceField", "ChoiceFieldAdmin">>,
       <<"MultipleChoiceField", "MultipleChoiceFieldAdmin">>,
       <<"DateField", "None">>, <<"DateTimeField", "None">>, <<"TimeField", "None">> >>

RECURSIVE RegisterAll(_, _)
RegisterAll(cm, calls) ==
    IF calls = << >> THEN cm
    ELSE RegisterAll(register_field_type(cm, Head(calls)[1], Head(calls)[2]), Tail(calls))

\* FieldAdmin.child_models once admin.py is imported.
ImportedChildModels == RegisterAll(<< >>, ModuleRegistrations)

\* Later register_field_type calls: a new field type, or one already there,
\* with or without an admin class of its own.
RegisterModels == {"BooleanField", "ChoiceField", "ColourField"}
RegisterAdmins == {"None", "CustomAdmin"}

EmptyTable == [r \in {} |-> 0]

Idle == [p \in 1..NumProcs |-> "idle"]
NoJob == [p \in 1..NumProcs |-> [op |-> "none"]]

Init ==
    /\ objects = {}
    /\ rows = EmptyTable
    /\ child_models = ImportedChildModels
    /\ last = [op |-> "init"]
    /\ pc = Idle
    /\ job = NoJob

\* ------------------------------------------ HasMetadata.copy_metadata_to
\* The method opens no transaction, so each of its queries commits on its own
\* (Django's autocommit): the DELETE, the SELECT behind self.metadata.all()
\* and one INSERT per datum are separate steps, and other requests run
\* between them. The instances need not be saved rows: the method runs on a
\* stale instance as well.
Procs == 1..NumProcs

\* What a step of a running copy leaves in `last`.
CopyStep == [op |-> "copy_step"]

\* What a copy leaves in `last` as it returns or raises: its arguments, what
\* the source held when the call started, and the exception.
CopyResult(p, error) ==
    [op |-> "copy", src |-> job[p].src, dst |-> job[p].dst,
     pre_src |-> job[p].pre_src, error |-> error]

\* Line 54: the DELETE of the destination's rows.
CopyDelete(p, s, d) ==
    /\ pc[p] = "idle"
    /\ rows' = DeleteRows(rows, d)
    /\ pc' = [pc EXCEPT ![p] = "read"]
    /\ job' = [job EXCEPT ![p] = [op |-> "copy", src |-> s, dst |-> d, data |-> {},
                                  pre_src |-> get_metadata(rows, s)]]
    /\ last' = CopyStep
    /\ UNCHANGED <<objects, child_models>>

\* Line 55: the SELECT that evaluates self.metadata.all(); with no row the
\* loop body never runs and the method returns.
CopyRead(p) ==
    /\ pc[p] = "read"
    /\ LET data == get_metadata(rows, job[p].src)
       IN IF data = {}
          THEN /\ pc' = [pc EXCEPT ![p] = "idle"]
               /\ job' = [job EXCEPT ![p] = [op |-> "none"]]
               /\ last' = CopyResult(p, "none")
          ELSE /\ pc' = [pc EXCEPT ![p] = "create"]
               /\ job' = [job EXCEPT ![p].data = data]
               /\ last' = CopyStep
    /\ UNCHANGED <<objects, rows, child_models>>

\* Lines 56-59: one INSERT of the loop, in whatever order the rows came. An
\* IntegrityError ends the method with the rest of the data not created;
\* after the last datum the method returns.
CopyCreate(p) ==
    /\ pc[p] = "create"
    /\ \E kv \in job[p].data :
         LET c == Create(rows, job[p].dst, kv[1], kv[2])
             left == job[p].data \ {kv}
         IN /\ rows' = c.rows
            /\ IF c.error # "none" \/ left = {}
               THEN /\ pc' = [pc EXCEPT ![p] = "idle"]
                    /\ job' = [job EXCEPT ![p] = [op |-> "none"]]
                    /\ last' = CopyResult(p, c.error)
               ELSE /\ pc' = pc
                    /\ job' = [job EXCEPT ![p].data = left]
                    /\ last' = CopyStep
    /\ UNCHANGED <<objects, child_models>>

\* A POST to the add view with a valid object form: save_model, then
\* response_add. e is the instance being added (its pk is what the save
\* assigns).
AdminAdd(e, post) ==
    /\ e \notin objects
    /\ LET s == save_model(objects, rows, e, post)
       IN /\ objects' = s.objects
          /\ rows' = s.rows
          /\ last' = [op |-> "post", ent |-> e, change |-> FALSE, post |-> post,
                      obj_saved |-> s.obj_saved, md_saved |-> s.md_saved,
                      response |-> response_add(s.rows, e, e \in s.objects, post),
                      pre_rows |-> rows, pre_objects |-> objects]
    /\ UNCHANGED <<child_models, pc, job>>

\* A POST to the change view with a valid object form: save_model, then
\* response_change.
AdminChange(e, post) ==
    /\ e \in objects
    /\ LET s == save_model(objects, rows, e, post)
       IN /\ objects' = s.objects
          /\ rows' = s.rows
          /\ last' = [op |-> "post", ent |-> e, change |-> TRUE, post |-> post,
                      obj_saved |-> s.obj_saved, md_saved |-> s.md_saved,
                      response |-> response_change(s.rows, e, e \in s.objects, post),
                      pre_rows |-> rows, pre_objects |-> objects]
    /\ UNCHANGED <<child_models, pc, job>>

\* The add page (change = FALSE, e not saved) or the change page (change =
\* TRUE, e saved) rendered by the view itself: on a GET, or on a POST whose
\* object form is invalid.
AdminRender(e, change, method) ==
    /\ change <=> e \in objects
    /\ last' = [op |-> "render", ent |-> e, change |-> change, method |-> method,
                response |-> render_change_form(rows, e, e \in objects, method, change,
                                               PlainContext),
                pre_rows |-> rows, pre_objects |-> objects]
    /\ UNCHANGED <<objects, rows, child_models, pc, job>>

\* obj.delete() on a HasMetadata instance: the GenericRelation `metadata`
\* makes the deletion collect the Metadatum rows that point at the instance.
DeleteEntity(e) ==
    /\ e \in objects
    /\ objects' = objects \ {e}
    /\ rows' = DeleteRows(rows, e)
    /\ last' = [op |-> "delete_entity", ent |-> e,
                pre_rows |-> rows, pre_objects |-> objects]
    /\ UNCHANGED <<child_models, pc, job>>

\* Deleting the Metadatum rows of an entity: content_object is a
\* GenericForeignKey, which deletes nothing on the other side.
DeleteMetadata(e) ==
    /\ FilterRows(rows, e) # {}
    /\ rows' = DeleteRows(rows, e)
    /\ last' = [op |-> "delete_metadata", ent |-> e,
                pre_rows |-> rows, pre_objects |-> objects]
    /\ UNCHANGED <<objects, child_models, pc, job>>

\* The destination of the copies.
Destination == <<"A", 1>>

\* One copy at a time (request 1), from any entity, itself included, onto the
\* destination, its queries interleaved with the admin requests and the
\* deletions; neither instance need be a saved object.
Next ==
    \/ \E s \in Entities : CopyDelete(1, s, Destination)
    \/ CopyRead(1)
    \/ CopyCreate(1)
    \/ \E e \in Entities, post \in Posts : AdminAdd(e, post)
    \/ \E e \in Entities, post \in Posts : AdminChange(e, post)
    \/ \E e \in Entities, change \in BOOLEAN, method \in {"GET", "POST"} :
          AdminRender(e, change, method)
    \/ \E e \in Entities : DeleteEntity(e)
    \/ \E e \in Entities : DeleteMetadata(e)

Spec == Init /\ [][Next]_vars

\* ------------------------------------------------ the registry specification
RegisterFieldType(model, model_admin) ==
    /\ Len(child_models) < Len(ImportedChildModels) + MaxRegistrations
    /\ child_models' = register_field_type(child_models, model, model_admin)
    /\ last' = [op |-> "register", model |-> model, pre_child_models |-> child_models]
    /\ UNCHANGED <<objects, rows, pc, job>>

NextRegistry == \E m \in RegisterModels, a \in RegisterAdmins : RegisterFieldType(m, a)

SpecRegistry == Init /\ [][NextRegistry]_vars

\* -------------------------------------------- the concurrent specification
\* Copies onto one destination, interleaved with each other and with the
\* saves of other requests.

\* The copies the concurrent requests make: two sources, A2 and B1, copied
\* onto the same destination.
CopyPairs == {<< <<"A", 2>>, Destination >>, << <<"B", 1>>, Destination >>}

InitConc ==
    /\ objects = Entities
    /\ rows = EmptyTable
    /\ child_models = ImportedChildModels
    /\ last = [op |-> "init"]
    /\ pc = Idle
    /\ job = NoJob

\* The value the concurrent saves write for an entity: "u" for A2, "v" for B1
\* and A1, so that a row of A1 tells which source it was copied from.
SavedValue(e) == IF e = <<"A", 2>> THEN "u" ELSE "v"

\* The keys the concurrent saves write for an entity: B1 holds k1 alone.
SavedKeys(e) == IF e = <<"B", 1>> THEN {"k1"} ELSE Keys

\* A metadata save of another request: one set, committed on its own.
SetMetadatum(e, k) ==
    /\ rows' = set_metadatum(rows, e, k, SavedValue(e))
    /\ last' = [op |-> "set"]
    /\ UNCHANGED <<objects, child_models, pc, job>>

NextConc ==
    \/ \E p \in Procs, pair \in CopyPairs : CopyDelete(p, pair[1], pair[2])
    \/ \E p \in Procs : CopyRead(p)
    \/ \E p \in Procs : CopyCreate(p)
    \/ \E e \in Entities : \E k \in SavedKeys(e) : SetMetadatum(e, k)

SpecConc == InitConc /\ [][NextConc]_vars

\* ------------------------------------------------------------------ claims
AdminHasFormClass == get_metadata_form_class(last.ent) # "None"

\* C1 (as claimed): when S.copy_metadata_to(D), D another entity than S,
\* completes, D holds exactly the key -> value pairs S held when the copy
\* started, S's own pairs are unchanged and no exception was raised.
C1_CopyEqualsSource ==
    (last.op = "copy" /\ last.src # last.dst) =>
        /\ last.error = "none"
        /\ get_metadata(rows, last.dst) = last.pre_src
        /\ get_metadata(rows, last.src) = last.pre_src

\* C2: the Metadatum table never holds two rows with the same
\* (content_type, object_id, key), under every interleaving of the steps of
\* concurrent copies and of metadata saves.
C2_UniqueTogether ==
    /\ DOMAIN rows \subseteq Metadatum
    /\ \A e \in Entities, k \in Keys : TripleCount(rows, e, k) <= 1

\* A copy whose INSERT met an existing triple and was rejected: the copy
\* raised, and the destination holds one row for a key of the source.
C2_Witness ==
    /\ last.op = "copy" /\ last.error = "IntegrityError"
    /\ \E kv \in last.pre_src : TripleCount(rows, last.dst, kv[1]) = 1

\* C3: for an admin with a metadata form class, a POST whose metadata is
\* invalid, or that carries no metadata, makes save_model write nothing:
\* the saved objects and the Metadatum table are what they were.
C3_RejectedWritesNothing ==
    (last.op = "post" /\ AdminHasFormClass
        /\ ~(last.post.has_metadata /\ is_valid(last.post))) =>
        /\ ~last.obj_saved /\ ~last.md_saved
        /\ objects = last.pre_objects
        /\ rows = last.pre_rows

\* An add whose metadata has a valid field and an invalid one.
C3_Witness ==
    /\ last.op = "post" /\ AdminHasFormClass /\ ~last.change
    /\ last.post.has_metadata /\ ~is_valid(last.post)
    /\ cleaned_data(last.post) # {}

\* C4 (as claimed): a copy is atomic. Every step a running copy takes leaves
\* the destination's mapping either as it was before the step or equal to
\* the source's complete mapping; it never shows the destination emptied or
\* partly filled.
C4_CopyIsAtomic ==
    [][\A p \in Procs :
         (pc'[p] # pc[p] \/ job'[p] # job[p]) =>
            LET j == IF pc[p] = "idle" THEN job'[p] ELSE job[p]
            IN get_metadata(rows', j.dst) \in
                   {get_metadata(rows, j.dst), get_metadata(rows, j.src)}]_vars

\* C6 (as claimed): no field type is in FieldAdmin.child_models twice.
C6_NoDuplicateTypes ==
    \A i, j \in DOMAIN child_models :
        child_models[i][1] = child_models[j][1] => i = j

\* C7 (as claimed): deleting an entity leaves the Metadatum table as it was,
\* and deleting Metadatum rows leaves the entities as they were.
C7_NoCascade ==
    /\ last.op = "delete_entity" => rows = last.pre_rows
    /\ last.op = "delete_metadata" => objects = last.pre_objects

\* C8: for an admin with a metadata form class, the response of a POST is
\* the normal success response exactly when save_model saved the object and
\* its metadata; otherwise the form is shown again and nothing was written.
C8_ResponseAgreesWithSave ==
    (last.op = "post" /\ AdminHasFormClass) =>
        /\ last.response.kind = "success" <=> (last.obj_saved /\ last.md_saved)
        /\ last.response.kind = "success" =>
              /\ last.ent \in objects
              /\ cleaned_data(last.post) \subseteq get_metadata(rows, last.ent)
        /\ last.response.kind # "success" =>
              /\ last.response.kind = "form"
              /\ objects = last.pre_objects
              /\ rows = last.pre_rows

\* An add with the marker and invalid metadata: the form is shown again.
C8_Witness ==
    /\ last.op = "post" /\ AdminHasFormClass /\ ~last.change
    /\ last.post.has_metadata /\ ~is_valid(last.post)
    /\ last.response.kind = "form"

\* C9 (as claimed): without a metadata form class every overridden operation
\* does what the base ModelAdmin does: a POST saves the object and gets the
\* normal response, a page is rendered without a metadata form, and nothing
\* raises.
C9_NoFormClassIsBase ==
    (last.op \in {"post", "render"} /\ ~AdminHasFormClass) =>
        /\ last.response.error = "none"
        /\ last.op = "post" =>
              /\ last.obj_saved /\ last.ent \in objects /\ rows = last.pre_rows
              /\ last.response = base_response
        /\ last.op = "render" => last.response = base_render_change_form(PlainContext)

\* C10 (as claimed): E.copy_metadata_to(E) leaves E's mapping as it was.
C10_SelfCopyNoOp ==
    (last.op = "copy" /\ last.src = last.dst) =>
        get_metadata(rows, last.dst) = last.pre_src
====
